---- MODULE Spec2Model ----
(***************************************************************************)
(* OAuth2 token lifecycle and Gmail synchronisation pipeline of the        *)
(* gmail-viewer backend (authService.js, gmailService.js, middleware/      *)
(* auth.js, routes/auth.js, routes/emails.js, models/User.js,              *)
(* models/EmailMetadata.js).                                               *)
(*                                                                         *)
(* Every request is a process that moves from one suspension point (an     *)
(* await on the provider or on the database) to the next; requests         *)
(* interleave freely between suspension points.  A Sequelize instance is a *)
(* snapshot of its row: instance.update(values) writes exactly the keys of *)
(* values to the row and to the snapshot, instance.reload() re-reads the   *)
(* row.                                                                    *)
(*                                                                         *)
(* Error messages are sequences of words; String.prototype.includes is the *)
(* contiguous-subsequence test on them, case-sensitive as in JavaScript.   *)
(***************************************************************************)
EXTENDS Integers, FiniteSets, Sequences, TLC

\* ------------------------------------------------------------------ bounds
MaxTime == 2          \* the clock advances MaxTime times (seconds)
MaxReqs == 2          \* requests in flight at the same time
MaxStarts == 3        \* requests (and script runs) started in one behaviour
MaxAccounts == 1      \* Google accounts that log in
MaxSerial == 2        \* distinct token strings the provider issues per account
MaxMsgs == 2          \* messages in each remote mailbox
MaxRemoteEdits == 1   \* label changes made on the remote side
MaxLifetime == 1      \* lifetimes (seconds) the provider reports, 1..MaxLifetime
MaxLimit == 2         \* page sizes of a search, 1..MaxLimit
MaxLoginIds == 2      \* identities that log in, in the login specification
MaxNames == 2         \* profiles (email, name, picture) an identity reports
MaxCount == 45        \* rows of emails a listed user has, 0..MaxCount
MaxPage == 3          \* pages asked of GET /emails, 1..MaxPage
MaxPageSize == 20     \* page sizes asked of GET /emails, 1..MaxPageSize

\* ------------------------------------------------------- program constants
NULL == 0                 \* null / undefined / '' (all falsy in the code)
DefaultPage == 1           \* GET /emails: page = 1
DefaultPageSize == 20      \* GET /emails: limit = 20
DefaultLifetime == 3600   \* fallback lifetime when expiry_date is missing

Reqs == 1 .. MaxReqs
GoogleIds == 1 .. MaxAccounts
UserIds == 1 .. MaxAccounts
Serials == 1 .. MaxSerial
Lifetimes == {NULL} \cup (1 .. MaxLifetime)

\* The provider's token strings for account g, and the account a token names.
TokensOf(g) == {(g - 1) * MaxSerial + k : k \in Serials}
AcctOf(t) == ((t - 1) \div MaxSerial) + 1

\* The remote mailbox of account g, the Message-ID header of a message (the
\* first message of a mailbox carries none, the others carry one that the
\* same mail has in every mailbox it was delivered to).
MailboxOf(g) == {(g - 1) * MaxMsgs + k : k \in 1 .. MaxMsgs}
AllMsgs == UNION {MailboxOf(g) : g \in GoogleIds}
MessageIdHeader(m) ==
  IF (m - 1) % MaxMsgs = 0 THEN NULL ELSE MaxAccounts * MaxMsgs + ((m - 1) % MaxMsgs)
Labels == {"UNREAD", "STARRED"}

\* ------------------------------------------------- strings of characters
\* Header names and values are sequences of characters.
UpperCase ==
  <<"A", "B", "C", "D", "E", "F", "G", "H", "I", "J", "K", "L", "M",
    "N", "O", "P", "Q", "R", "S", "T", "U", "V", "W", "X", "Y", "Z">>
LowerCase ==
  <<"a", "b", "c", "d", "e", "f", "g", "h", "i", "j", "k", "l", "m",
    "n", "o", "p", "q", "r", "s", "t", "u", "v", "w", "x", "y", "z">>

\* String.prototype.toLowerCase
ToLowerCase(str) ==
  [i \in DOMAIN str |->
     IF \E k \in DOMAIN UpperCase : UpperCase[k] = str[i]
     THEN LowerCase[CHOOSE k \in DOMAIN UpperCase : UpperCase[k] = str[i]]
     ELSE str[i]]

\* The headers a remote message can carry, by name and value, and the header
\* lists of up to two of them.
HeaderNames ==
  {<<"X", "-", "P", "r", "i", "o", "r", "i", "t", "y">>,
   <<"p", "r", "i", "o", "r", "i", "t", "y">>,
   <<"S", "u", "b", "j", "e", "c", "t">>}
HeaderValues ==
  {<<"1">>, <<"5">>, <<"3">>, <<"H", "i", "g", "h">>, <<"L", "O", "W">>}
Headers == [name : HeaderNames, value : HeaderValues]
HeaderLists == {<<>>} \cup {<<h>> : h \in Headers} \cup {<<h, g>> : h \in Headers, g \in Headers}

\* The labels that matter to the priority of a message.
PriorityLabels == {"UNREAD", "IMPORTANT", "CATEGORY_PROMOTIONS"}

\* ------------------------------------------------------------ error texts
\* message.includes(pat)
Includes(msg, pat) ==
  \E i \in 1 .. (Len(msg) - Len(pat) + 1) : SubSeq(msg, i, i + Len(pat) - 1) = pat

P_reauthenticate == <<"re-authenticate">>
P_authentication_failed == <<"authentication", "failed">>
P_invalid_grant == <<"invalid_grant">>
P_rate_limit == <<"rate", "limit">>
P_forbidden == <<"forbidden">>
P_access_forbidden == <<"access", "forbidden">>
P_Reauthentication_required == <<"Re-authentication", "required">>

\* authService.refreshAccessToken
E_NoRefreshToken ==
  <<"No", "refresh", "token", "available", "for", "user", ".",
    "Re-authentication", "required", ".">>
E_InvalidGrant ==
  <<"invalid_grant", ":", "Refresh", "token", "is", "invalid", ",", "expired", ",",
    "or", "revoked", ".", "User", "must", "re-authenticate", ".">>
E_FailedToRefresh(m) == <<"Failed", "to", "refresh", "access", "token", ":">> \o m

\* gmailService.initializeClient
E_NoValidTokens ==
  <<"User", "has", "no", "valid", "OAuth", "tokens", ".",
    "Re-authentication", "required", ".">>
E_RefreshTokenNotAvailable ==
  <<"Refresh", "token", "not", "available", ".", "User", "needs", "to",
    "re-authenticate", ".">>
E_RefreshTokenInvalid ==
  <<"Refresh", "token", "is", "invalid", "or", "expired", ".", "User", "needs", "to",
    "re-authenticate", ".">>
E_RefreshFailedPleaseReauth ==
  <<"Failed", "to", "refresh", "access", "token", ".", "Please",
    "re-authenticate", ".">>
E_FailedToInitialize(m) ==
  <<"Failed", "to", "initialize", "Gmail", "connection", ":">> \o m

\* gmailService.fetchEmails
E_ApiAuthFailed ==
  <<"Gmail", "API", "authentication", "failed", ".", "User", "needs", "to",
    "re-authenticate", ".">>
E_ApiForbidden ==
  <<"Gmail", "API", "access", "forbidden", ".", "Check", "OAuth", "scopes", "and",
    "permissions", ".">>
E_ApiRateLimit ==
  <<"Gmail", "API", "rate", "limit", "exceeded", ".", "Please", "try", "again",
    "later", ".">>
E_ApiError(m) == <<"Gmail", "API", "error", ":">> \o (IF m = <<>> THEN <<"Unknown", "error">> ELSE m)
E_FailedToFetch(m) == <<"Failed", "to", "fetch", "emails", "from", "Gmail", ":">> \o m

\* What the provider's token endpoint can answer to a refresh exchange.
RefreshErrors ==
  {<<"invalid_grant">>, <<"network", "timeout">>, <<"socket", "hang", "up">>}

\* --------------------------------------------------- error classification
\* Inner catches that never clear, and that clear on every error.
ClearsOnRefreshError_Never(refreshError) == FALSE
ClearsOnRefreshError_Always(refreshError) == TRUE

\* refreshAccessToken, inner catch: what is thrown for a provider error, and
\* whether the three credential fields are cleared first.
ClearsOnRefreshError(refreshError) == Includes(refreshError, P_invalid_grant)
InnerRefreshError(refreshError) ==
  IF Includes(refreshError, P_invalid_grant) THEN E_InvalidGrant ELSE refreshError

\* refreshAccessToken, outer catch.
RefreshAccessTokenCatch(e) ==
  IF Includes(e, P_invalid_grant) \/ Includes(e, P_Reauthentication_required)
  THEN e
  ELSE E_FailedToRefresh(e)

\* initializeClient, catch around the refresh.
InitRefreshCatch(e) ==
  IF Includes(e, P_invalid_grant) THEN E_RefreshTokenInvalid ELSE E_RefreshFailedPleaseReauth

\* initializeClient, outer catch.
InitializeClientCatch(e) ==
  IF Includes(e, P_reauthenticate) THEN e ELSE E_FailedToInitialize(e)

\* fetchEmails, catch around messages.list: apiError.code and apiError.message.
ListErrorThrown(code, msg) ==
  IF code = 401 THEN E_ApiAuthFailed
  ELSE IF code = 403 THEN E_ApiForbidden
  ELSE IF code = 429 THEN E_ApiRateLimit
  ELSE E_ApiError(msg)

\* fetchEmails, outer catch.
FetchEmailsCatch(e) ==
  IF Includes(e, P_reauthenticate) \/ Includes(e, P_authentication_failed)
  THEN e
  ELSE E_FailedToFetch(e)

\* ------------------------------------------------------------- responses
\* data.pagination of a response (all NULL: the response has none).
NoPagination ==
  [currentPage |-> NULL, totalPages |-> NULL, totalCount |-> NULL, limit |-> NULL,
   hasNextPage |-> FALSE, hasPrevPage |-> FALSE]

\* data.stats of a response: the four counts of getEmailStats.
NoStats == [total |-> 0, unread |-> 0, starred |-> 0, today |-> 0]

\* The users the rows belong to.
Owners(rows) == {row.userId : row \in rows}

\* count: data.totalCount of a sync, the number of data.emails of a list.
\* owners: the users whose rows the response carries.
NoResp ==
  [status |-> NULL, error |-> "NONE", requiresAuth |-> FALSE, count |-> 0, details |-> <<>>,
   token |-> NULL, pagination |-> NoPagination, owners |-> {}, stats |-> NoStats]
Resp(status, error) == [NoResp EXCEPT !.status = status, !.error = error]

\* POST /emails/sync, catch: the condition of the first branch, and the mapping.
IsAuthenticationError(e) ==
  \/ Includes(e, P_reauthenticate)
  \/ Includes(e, P_authentication_failed)
  \/ Includes(e, P_invalid_grant)

SyncErrorResponse(e) ==
  IF IsAuthenticationError(e)
  THEN [Resp(401, "AUTHENTICATION_REQUIRED") EXCEPT !.requiresAuth = TRUE]
  ELSE IF Includes(e, P_rate_limit) THEN Resp(429, "RATE_LIMIT_EXCEEDED")
  ELSE IF Includes(e, P_forbidden) \/ Includes(e, P_access_forbidden)
       THEN Resp(403, "ACCESS_FORBIDDEN")
  ELSE [Resp(500, "EMAIL_SYNC_FAILED") EXCEPT !.details = e]

\* ------------------------------------------------------------------ state
VARIABLES
  now,          \* the clock (seconds)
  users,        \* table users: id -> row
  emails,       \* table email_metadata: a set of rows
  remoteLabels, \* the provider's label set of every remote message
  remoteHeaders, \* the priority-related headers of every remote message
  remoteEdits,  \* label changes made so far on the remote side
  gmail,        \* GmailService.gmail: the access token of the shared client
  jwts,         \* user ids for which a session token was issued
  req,          \* the requests in flight
  started,      \* requests started so far
  last          \* the response the last step sent, if it ended a request

vars ==
  <<now, users, emails, remoteLabels, remoteHeaders, remoteEdits, gmail, jwts, req, started,
    last>>

\* A User instance: a snapshot of a row (id = NULL: no instance).
NoInst ==
  [id |-> NULL, googleId |-> NULL, accessToken |-> NULL, refreshToken |-> NULL,
   tokenExpiry |-> NULL, isActive |-> FALSE]
Instance(id) ==
  [id |-> id, googleId |-> users[id].googleId, accessToken |-> users[id].accessToken,
   refreshToken |-> users[id].refreshToken, tokenExpiry |-> users[id].tokenExpiry,
   isActive |-> users[id].isActive]

\* The tokens of an OAuth2 code exchange together with the expiry computed
\* from them (googleId = NULL: none).
NoTok ==
  [googleId |-> NULL, verified_email |-> FALSE, name |-> NULL, access_token |-> NULL,
   refresh_token |-> NULL, tokenExpiry |-> NULL, loginAt |-> NULL]

\* The identity getUserInfo returned to a callback (googleId = NULL: none).
NoIdent == [googleId |-> NULL, verified_email |-> FALSE, name |-> NULL]

\* The options of a search a request keeps: the search term, the filters,
\* the page size and the number of fetchEmails calls made for it (limit =
\* NULL: none).
NoSearch ==
  [query |-> <<>>, sender |-> <<>>, isUnread |-> "null", limit |-> NULL, fetches |-> 0]

\* The path segment and the body of a PUT request under /emails (isRead,
\* isStarred "null": absent from the body).
NoPut ==
  [path |-> "none", emailIds |-> {}, action |-> "none", value |-> FALSE,
   isRead |-> "null", isStarred |-> "null"]

\* The page and limit parameters of GET /emails: digits as they stand in
\* the query string (<<>>: the parameter is absent).
NoQuery == [page |-> <<>>, limit |-> <<>>]

Idle ==
  [pc |-> "idle", kind |-> "none", inst |-> NoInst, tok |-> NoTok,
   cred |-> NULL, list |-> {}, failed |-> 0, toStore |-> {}, search |-> NoSearch,
   put |-> NoPut, query |-> NoQuery, stats |-> NoStats, ev |-> "none"]

NoLast == [kind |-> "none", ev |-> "none", err |-> <<>>, resp |-> NoResp, ident |-> NoIdent]

Init ==
  /\ now = 1
  /\ users = <<>>
  /\ emails = {}
  /\ remoteLabels = [m \in AllMsgs |-> {"UNREAD"}]
  /\ remoteHeaders = [m \in AllMsgs |-> <<>>]
  /\ remoteEdits = 0
  /\ gmail = NULL
  /\ jwts = {}
  /\ req = [r \in Reqs |-> Idle]
  /\ started = 0
  /\ last = NoLast

\* Slot r takes a new request.
Start(r) ==
  /\ req[r].pc = "idle"
  /\ started < MaxStarts
  /\ started' = started + 1

\* The request goes on as q.
Goto(r, q) ==
  /\ req' = [req EXCEPT ![r] = q]
  /\ last' = NoLast

\* The request ends: with a response, and with the error err when one was
\* thrown on the way.
Finish(r, kind, ev, err, resp) ==
  /\ req' = [req EXCEPT ![r] = Idle]
  /\ last' = [kind |-> kind, ev |-> ev, err |-> err, resp |-> resp, ident |-> NoIdent]

\* The callback of identity ident ends with a redirect.
FinishCallback(r, ev, resp, ident) ==
  /\ req' = [req EXCEPT ![r] = Idle]
  /\ last' = [kind |-> "callback", ev |-> ev, err |-> <<>>, resp |-> resp, ident |-> ident]

\* An expiry check that always asks for a refresh.
isTokenExpired_Always(u, t) == TRUE

\* User.prototype.isTokenExpired
isTokenExpired(u, t) == IF u.tokenExpiry = NULL THEN TRUE ELSE t > u.tokenExpiry

\* The expiry computed from the lifetime the provider reports.
ComputeExpiry(t, life) == t + (IF life # NULL THEN life ELSE DefaultLifetime)

\* A hook that stores a digest of the token in place of the token.
StoredToken_Hashed(t) == IF t = NULL THEN NULL ELSE t + MaxAccounts * MaxSerial

\* The hooks of the User model, applied to a token on create and on update:
\* the model defines none, the string is stored as it is.
StoredToken(t) == t

\* ------------------------------------------------------------ environment
Tick ==
  /\ now <= MaxTime
  /\ now' = now + 1
  /\ last' = NoLast
  /\ UNCHANGED <<users, emails, remoteLabels, remoteHeaders, remoteEdits, gmail, jwts, req, started>>

\* The mailbox owner (or Gmail itself) adds or removes a label of a message.
RemoteEdit(m, l) ==
  /\ remoteEdits < MaxRemoteEdits
  /\ remoteEdits' = remoteEdits + 1
  /\ remoteLabels' =
       [remoteLabels EXCEPT ![m] = IF l \in @ THEN @ \ {l} ELSE @ \cup {l}]
  /\ last' = NoLast
  /\ UNCHANGED <<now, users, emails, remoteHeaders, gmail, jwts, req, started>>

\* ----------------------------------------------------- refreshAccessToken
\* The values written after a successful refresh exchange.
RefreshUpdate(row, at, expiry) ==
  [row EXCEPT !.accessToken = StoredToken(at), !.tokenExpiry = expiry]

\* A clearing that forgets the expiry.
ClearTokens_KeepExpiry(row) == [row EXCEPT !.accessToken = NULL, !.refreshToken = NULL]

\* The values written when the grant is rejected, and by revokeTokens.
ClearTokens(row) ==
  [row EXCEPT !.accessToken = NULL, !.refreshToken = NULL, !.tokenExpiry = NULL]

\* searchEmails, catch: every error becomes the same one.
E_FailedToSearch == <<"Failed", "to", "search", "emails">>
SearchEmailsCatch(e) == E_FailedToSearch

\* POST /emails/search, catch.
SearchErrorResponse(e) == Resp(500, "EMAIL_SEARCH_FAILED")

\* fetchEmails throws: the outer catch of fetchEmails, then the sync route's
\* mapping, or the catch of searchEmails and the search route's answer (the
\* script only prints the error).
FailFetch(r, kind, ev, e) ==
  LET thrown == FetchEmailsCatch(e)
  IN IF kind = "search"
     THEN Finish(r, kind, ev, SearchEmailsCatch(thrown),
                 SearchErrorResponse(SearchEmailsCatch(thrown)))
     ELSE Finish(r, kind, ev, thrown,
                 IF kind = "sync" THEN SyncErrorResponse(thrown) ELSE NoResp)

\* fetchEmails returns count stored rows: the sync route and the script
\* report them, searchEmails searches the local rows again.
FetchDone(r, q, ev, count) ==
  IF q.kind = "search"
  THEN Goto(r, [q EXCEPT !.pc = "search_again", !.ev = ev])
  ELSE Finish(r, q.kind, ev, <<>>, [Resp(200, "NONE") EXCEPT !.count = count])

\* ------------------------------------------------------------ fetchEmails
ApiErrorCodes == {NULL, 401, 403, 429, 500}
ApiErrorTexts == {<<>>, <<"Backend", "Error">>, <<"User", "rate", "limit", "exceeded">>}

\* fetchEmails up to its first suspension, for a request q that holds its
\* User instance: initializeClient checks the tokens, then either calls the
\* token endpoint, or builds the shared client from the instance's tokens,
\* and messages.list is called on it.
FetchEmailsBegin(r, q) ==
  LET user == q.inst
  IN IF user.accessToken = NULL /\ user.refreshToken = NULL
     THEN /\ FailFetch(r, q.kind, "ic_no_tokens", InitializeClientCatch(E_NoValidTokens))
          /\ UNCHANGED gmail
     ELSE IF isTokenExpired(user, now)
     THEN /\ IF user.refreshToken = NULL
             THEN FailFetch(r, q.kind, "ic_no_refresh_token",
                            InitializeClientCatch(E_RefreshTokenNotAvailable))
             ELSE Goto(r, [q EXCEPT !.pc = "ic_refreshing", !.ev = "expired"])
          /\ UNCHANGED gmail
     ELSE /\ gmail' = user.accessToken
          /\ Goto(r, [q EXCEPT !.pc = "listing", !.cred = user.accessToken, !.ev = "valid"])

\* revokeTokens up to its first suspension: with an access token the
\* provider's revocation is called, without one the update is issued.
RevokeBegin(r, q) ==
  /\ Goto(r, [q EXCEPT !.pc = IF q.inst.accessToken # NULL THEN "revoking" ELSE "clearing"])
  /\ UNCHANGED gmail

\* The options of a search: the search term (empty after validateSearch
\* trimmed a query of blanks), the sender filter, the unread filter, the page
\* size.
Tristate == {"null", "true", "false"}
SearchOptions ==
  [query : {<<>>, <<"invoice">>}, sender : {<<>>, <<"a@example.com">>},
   isUnread : Tristate, limit : 1 .. MaxLimit]

\* searchEmails up to its first suspension: the Gmail query is composed from
\* the options of the request and the local search is issued.
SearchBegin(r, q) ==
  /\ \E so \in SearchOptions :
       Goto(r, [q EXCEPT !.pc = "search_local",
                         !.search = [NoSearch EXCEPT !.query = so.query, !.sender = so.sender,
                                                     !.isUnread = so.isUnread,
                                                     !.limit = so.limit]])
  /\ UNCHANGED gmail

\* The PUT routes of the emails router, in the order they are registered.
PutRoutes == <<"/:emailId", "/bulk">>

\* A route path matches the path segment of a request: a parameter matches
\* every segment, a literal matches itself.
RouteMatches(route, seg) == route = "/:emailId" \/ (route = "/bulk" /\ seg = "bulk")

\* The router hands the request to the first registered route that matches.
PutRoute(seg) ==
  PutRoutes[CHOOSE i \in DOMAIN PutRoutes :
              /\ RouteMatches(PutRoutes[i], seg)
              /\ \A j \in 1 .. i - 1 : ~RouteMatches(PutRoutes[j], seg)]

\* The ids of the rows of emails in the PUT requests.
RowIds == 1 .. MaxMsgs + 1

\* Path segments, and the integer a segment of digits stands for.
IsInt(seg) == seg \in {"1", "2", "3"}
ToInt(seg) == IF seg = "1" THEN 1 ELSE IF seg = "2" THEN 2 ELSE 3

\* PUT requests: a bulk update (emailIds, action, value) sent to /bulk, or
\* an update of one email (isRead, isStarred) sent to /<id>.
PutRequests ==
  {[NoPut EXCEPT !.path = "bulk", !.emailIds = ids, !.action = a, !.value = v] :
     ids \in SUBSET RowIds, a \in {"isRead", "isStarred"}, v \in BOOLEAN}
  \cup
  {[NoPut EXCEPT !.path = seg, !.isRead = rd, !.isStarred = st] :
     seg \in {"1", "2", "3"}, rd \in {"null", "true", "false"},
     st \in {"null", "true", "false"}}

\* A PUT request past authenticateToken: the route /:emailId runs its
\* validators, the handler of /bulk checks the body and issues its update.
PutBegin(r, q) ==
  /\ \E p \in PutRequests :
       IF PutRoute(p.path) = "/:emailId"
       THEN Goto(r, [q EXCEPT !.pc = "put_validate", !.put = p])
       ELSE IF p.emailIds = {}
       THEN Finish(r, q.kind, "bulk_no_ids", <<>>, Resp(400, "INVALID_EMAIL_IDS"))
       ELSE Goto(r, [q EXCEPT !.pc = "put_db", !.put = p])
  /\ UNCHANGED gmail

\* Query string values of digits, one or two of them.
DigitTexts == UNION {[1 .. n -> 0 .. 9] : n \in 1 .. 2}

\* parseInt, and the number a string of digits is coerced to.
RECURSIVE ParseInt(_)
ParseInt(text) ==
  IF text = <<>> THEN 0
  ELSE 10 * ParseInt(SubSeq(text, 1, Len(text) - 1)) + text[Len(text)]

\* The page and limit parameters validateEmailQuery lets through.
QueryPages == {<<>>} \cup {text \in DigitTexts : ParseInt(text) \in 1 .. MaxPage}
QueryLimits == {<<>>} \cup {text \in DigitTexts : ParseInt(text) \in 1 .. MaxPageSize}

\* GET /emails past authenticateToken and its validators: findAndCountAll
\* is issued.
ListEmailsBegin(r, q) ==
  /\ \E page \in QueryPages, limit \in QueryLimits :
       Goto(r, [q EXCEPT !.pc = "list_db", !.query = [page |-> page, limit |-> limit]])
  /\ UNCHANGED gmail

\* GET /emails/<segment> past authenticateToken: validateEmailId answers 400
\* for a segment that is not a positive integer, else findOne is issued.
DetailBegin(r, q) ==
  /\ \E seg \in {"1", "2", "3", "bulk"} :
       IF IsInt(seg) /\ ToInt(seg) >= 1
       THEN Goto(r, [q EXCEPT !.pc = "detail_db", !.put = [NoPut EXCEPT !.path = seg]])
       ELSE Finish(r, q.kind, "validation_failed", <<>>, Resp(400, "VALIDATION_ERROR"))
  /\ UNCHANGED gmail

\* GET /emails/stats/overview past authenticateToken: getEmailStats issues
\* its first count.
StatsBegin(r, q) ==
  /\ Goto(r, [q EXCEPT !.pc = "stats_total"])
  /\ UNCHANGED gmail

\* next(): the route handler runs up to its first suspension.
EnterHandler(r, q) ==
  IF q.kind = "sync" THEN FetchEmailsBegin(r, q)
  ELSE IF q.kind = "search" THEN SearchBegin(r, q)
  ELSE IF q.kind = "list" THEN ListEmailsBegin(r, q)
  ELSE IF q.kind = "put" THEN PutBegin(r, q)
  ELSE IF q.kind = "detail" THEN DetailBegin(r, q)
  ELSE IF q.kind = "stats" THEN StatsBegin(r, q)
  ELSE RevokeBegin(r, q)

\* ------------------------------------------------------ GET /auth/callback
\* An update that leaves the profile as it was.
LoginUpdate_KeepProfile(row, tok, user) ==
  [row EXCEPT !.lastLoginAt = tok.loginAt,
              !.accessToken = tok.access_token,
              !.refreshToken = IF tok.refresh_token # NULL THEN tok.refresh_token
                               ELSE user.refreshToken,
              !.tokenExpiry = tok.tokenExpiry]

\* The values createOrUpdateUser writes to an existing user.
LoginUpdate(row, tok, user) ==
  [row EXCEPT !.name = tok.name,
              !.lastLoginAt = tok.loginAt,
              !.accessToken = StoredToken(tok.access_token),
              !.refreshToken = StoredToken(IF tok.refresh_token # NULL THEN tok.refresh_token
                                           ELSE user.refreshToken),
              !.tokenExpiry = tok.tokenExpiry]

\* The defaults createOrUpdateUser creates a user with.
LoginDefaults(tok) ==
  [googleId |-> tok.googleId, name |-> tok.name,
   accessToken |-> StoredToken(tok.access_token),
   refreshToken |-> StoredToken(tok.refresh_token), tokenExpiry |-> tok.tokenExpiry,
   lastLoginAt |-> tok.loginAt, isActive |-> TRUE]

\* The redirect of a successful login carries the session token of user id.
LoginResponse(id) == [Resp(302, "success") EXCEPT !.token = id]

\* A check that lets every identity pass.
IdentityAccepted_Always(verified_email) == TRUE

\* The callback goes on to createOrUpdateUser only with a verified email.
IdentityAccepted(verified_email) == verified_email

\* The callback ends in a redirect to the login page: the provider reported an
\* error, or the code exchange, the identity fetch or createOrUpdateUser
\* failed.
CallbackRejected(r, why) ==
  /\ Start(r)
  /\ Finish(r, "callback", why, <<>>, Resp(302, why))
  /\ UNCHANGED <<now, users, emails, remoteLabels, remoteHeaders, remoteEdits, gmail, jwts>>

\* getTokens and getUserInfo succeeded for account g.  With an unverified
\* email the callback redirects to the login page.  Otherwise
\* createOrUpdateUser computes the expiry, and User.findOrCreate({where:
\* {googleId}}) runs as one transaction: a created user gets its session
\* token at once, an existing one is updated first.
Callback(r, g, name, at, rt, life, verified_email) ==
  /\ Start(r)
  /\ LET tok == [googleId |-> g, verified_email |-> verified_email, name |-> name,
                 access_token |-> at, refresh_token |-> rt,
                 tokenExpiry |-> ComputeExpiry(now, life), loginAt |-> now]
         ident == [googleId |-> g, verified_email |-> verified_email, name |-> name]
         found == {u \in DOMAIN users : users[u].googleId = g}
     IN IF ~IdentityAccepted(verified_email)
        THEN /\ FinishCallback(r, "email_not_verified", Resp(302, "email_not_verified"), ident)
             /\ UNCHANGED <<users, jwts>>
        ELSE IF found = {}
        THEN /\ users' = Append(users, LoginDefaults(tok))
             /\ jwts' = jwts \cup {Len(users) + 1}
             /\ FinishCallback(r, "login_created", LoginResponse(Len(users) + 1), ident)
        ELSE /\ Goto(r, [Idle EXCEPT !.pc = "cb_update", !.kind = "callback", !.tok = tok,
                                     !.inst = Instance(CHOOSE u \in found : TRUE)])
             /\ UNCHANGED <<users, jwts>>
  /\ UNCHANGED <<now, emails, remoteLabels, remoteHeaders, remoteEdits, gmail>>

\* user.update({...}) of createOrUpdateUser, then generateJWT and the redirect.
CbUpdate(r) ==
  /\ req[r].pc = "cb_update"
  /\ users' = [users EXCEPT ![req[r].inst.id] = LoginUpdate(@, req[r].tok, req[r].inst)]
  /\ jwts' = jwts \cup {req[r].inst.id}
  /\ FinishCallback(r, "login_updated", LoginResponse(req[r].inst.id),
                    [googleId |-> req[r].tok.googleId,
                     verified_email |-> req[r].tok.verified_email,
                     name |-> req[r].tok.name])
  /\ UNCHANGED <<now, emails, remoteLabels, remoteHeaders, remoteEdits, gmail, started>>

\* ------------------------------------------------------ authenticateToken
\* The answer of the middleware when refreshAccessToken threw refreshError.
RefreshFailedResponse(refreshError) == Resp(401, "TOKEN_REFRESH_FAILED")

AuthKinds == {"sync", "search", "list", "detail", "put", "stats", "logout", "delete"}

\* A user check that lets deactivated users through.
ValidUser_Always(user) == TRUE

\* authenticateToken: the user found for the session token is active (rows
\* of users are never deleted, so the user of an issued token is found).
ValidUser(user) == user.isActive

\* A request with a session token that verifies, when findByPk answers: the
\* active check, the expiry check and, for an expired token,
\* refreshAccessToken up to its call of the token endpoint; with a valid
\* token next() is called.
Authenticate(r, kind, uid) ==
  /\ Start(r)
  /\ uid \in jwts
  /\ LET user == Instance(uid)
         q == [Idle EXCEPT !.kind = kind, !.inst = user]
     IN IF ~ValidUser(user)
        THEN /\ Finish(r, kind, "mw_inactive", <<>>, Resp(401, "INVALID_USER"))
             /\ UNCHANGED gmail
        ELSE IF isTokenExpired(user, now)
        THEN /\ IF user.refreshToken = NULL
                THEN LET thrown == RefreshAccessTokenCatch(E_NoRefreshToken)
                     IN Finish(r, kind, "mw_no_refresh_token", thrown,
                               RefreshFailedResponse(thrown))
                ELSE Goto(r, [q EXCEPT !.pc = "mw_refreshing", !.ev = "expired"])
             /\ UNCHANGED gmail
        ELSE EnterHandler(r, [q EXCEPT !.ev = "valid"])
  /\ UNCHANGED <<now, users, emails, remoteLabels, remoteHeaders, remoteEdits, jwts>>

\* user.reload() of the middleware, then next().
MwReload(r) ==
  /\ req[r].pc = "mw_reload"
  /\ EnterHandler(r, [req[r] EXCEPT !.inst = Instance(req[r].inst.id), !.tok = NoTok])
  /\ UNCHANGED <<now, users, emails, remoteLabels, remoteHeaders, remoteEdits, jwts, started>>

\* The token endpoint answers the refresh exchange with a new access token,
\* and the user is updated.
RefreshOk(r, at, life) ==
  /\ req[r].pc \in {"mw_refreshing", "ic_refreshing"}
  /\ at \in TokensOf(req[r].inst.googleId)
  /\ LET q == req[r]
         expiry == ComputeExpiry(now, life)
     IN /\ users' = [users EXCEPT ![q.inst.id] = RefreshUpdate(@, at, expiry)]
        /\ Goto(r, [q EXCEPT !.pc = IF q.pc = "mw_refreshing" THEN "mw_reload" ELSE "ic_reload",
                             !.inst = RefreshUpdate(q.inst, at, expiry),
                             !.tok = [NoTok EXCEPT !.access_token = at],
                             !.ev = "refresh_ok"])
  /\ UNCHANGED <<now, emails, remoteLabels, remoteHeaders, remoteEdits, gmail, jwts, started>>

\* The refresh exchange fails with the provider's error text.
RefreshFail(r, refreshError) ==
  /\ req[r].pc \in {"mw_refreshing", "ic_refreshing"}
  /\ LET q == req[r]
         thrown == RefreshAccessTokenCatch(InnerRefreshError(refreshError))
         ev == IF refreshError = <<"invalid_grant">> THEN "refresh_invalid_grant"
               ELSE "refresh_transient"
     IN /\ users' = IF ClearsOnRefreshError(refreshError)
                    THEN [users EXCEPT ![q.inst.id] = ClearTokens(@)]
                    ELSE users
        /\ IF q.pc = "mw_refreshing"
           THEN Finish(r, q.kind, ev, thrown, RefreshFailedResponse(thrown))
           ELSE FailFetch(r, q.kind, ev, InitializeClientCatch(InitRefreshCatch(thrown)))
  /\ UNCHANGED <<now, emails, remoteLabels, remoteHeaders, remoteEdits, gmail, jwts, started>>

\* ------------------------------------------------------- the sync pipeline
\* testGmailSync: User.findOne() answers, then fetchEmails without the
\* middleware.
Script(r, u) ==
  /\ Start(r)
  /\ u \in DOMAIN users
  /\ FetchEmailsBegin(r, [Idle EXCEPT !.kind = "script", !.inst = Instance(u)])
  /\ UNCHANGED <<now, users, emails, remoteLabels, remoteHeaders, remoteEdits, jwts>>

\* user.reload() of initializeClient, then the shared client is built and
\* messages.list is called on it.
IcReload(r) ==
  /\ req[r].pc = "ic_reload"
  /\ LET user == Instance(req[r].inst.id)
     IN /\ gmail' = user.accessToken
        /\ Goto(r, [req[r] EXCEPT !.pc = "listing", !.inst = user, !.tok = NoTok,
                                  !.cred = user.accessToken])
  /\ UNCHANGED <<now, users, emails, remoteLabels, remoteHeaders, remoteEdits, jwts, started>>

\* The event of a failed messages.list, by its status.
ListFailed(code) ==
  IF code = 401 THEN "list_failed_401"
  ELSE IF code = 403 THEN "list_failed_403"
  ELSE IF code = 429 THEN "list_failed_429"
  ELSE "list_failed_other"

\* messages.list fails: with a status of the mail API, or (code NULL) before
\* the call leaves the client.
ListFail(r, code, msg) ==
  /\ req[r].pc = "listing"
  /\ req[r].cred = NULL => code = NULL
  /\ FailFetch(r, req[r].kind, ListFailed(code), ListErrorThrown(code, msg))
  /\ UNCHANGED <<now, users, emails, remoteLabels, remoteHeaders, remoteEdits, gmail, jwts, started>>

\* messages.list answers with ids of the mailbox the credentials belong to;
\* messages.get is then called for every id on the shared client as it is now.
ListOk(r, ids) ==
  /\ req[r].pc = "listing"
  /\ req[r].cred # NULL
  /\ ids \subseteq MailboxOf(AcctOf(req[r].cred))
  /\ IF ids = {}
     THEN FetchDone(r, req[r], "sync_empty", 0)
     ELSE Goto(r, [req[r] EXCEPT !.pc = "getting", !.list = ids, !.cred = gmail,
                                 !.ev = "listed"])
  /\ UNCHANGED <<now, users, emails, remoteLabels, remoteHeaders, remoteEdits, gmail, jwts, started>>

\* A priority that lets the header decide before the labels.
determinePriority_HeaderFirst(labels, headers) ==
  LET found == SelectSeq(headers, LAMBDA h : ToLowerCase(h.name) \in
                                     {<<"x", "-", "p", "r", "i", "o", "r", "i", "t", "y">>,
                                      <<"p", "r", "i", "o", "r", "i", "t", "y">>})
      priority == IF found = <<>> THEN <<>> ELSE ToLowerCase(found[1].value)
  IN IF found # <<>> /\ (Includes(priority, <<"h", "i", "g", "h">>) \/ priority = <<"1">>)
     THEN "high"
     ELSE IF found # <<>> /\ (Includes(priority, <<"l", "o", "w">>) \/ priority = <<"5">>)
     THEN "low"
     ELSE IF "IMPORTANT" \in labels \/ "CATEGORY_PROMOTIONS" \in labels THEN "high"
     ELSE "medium"

\* determinePriority: the labels, then the first X-Priority or Priority
\* header.
determinePriority(labels, headers) ==
  IF "IMPORTANT" \in labels \/ "CATEGORY_PROMOTIONS" \in labels THEN "high"
  ELSE LET found == SelectSeq(headers, LAMBDA h : ToLowerCase(h.name) \in
                                          {<<"x", "-", "p", "r", "i", "o", "r", "i", "t", "y">>,
                                           <<"p", "r", "i", "o", "r", "i", "t", "y">>})
       IN IF found = <<>> THEN "medium"
          ELSE LET priority == ToLowerCase(found[1].value)
               IN IF Includes(priority, <<"h", "i", "g", "h">>) \/ priority = <<"1">>
                  THEN "high"
                  ELSE IF Includes(priority, <<"l", "o", "w">>) \/ priority = <<"5">>
                  THEN "low"
                  ELSE "medium"

\* parseEmailMessage: the fields of a row that depend on the remote message.
parseEmailMessage(m, labels, headers, userId) ==
  [userId |-> userId,
   messageId |-> IF MessageIdHeader(m) # NULL THEN MessageIdHeader(m) ELSE m,
   isRead |-> ~("UNREAD" \in labels),
   isStarred |-> "STARRED" \in labels,
   labels |-> labels,
   priority |-> determinePriority(labels, headers),
   gmailMessageId |-> m]

\* The answers of messages.get: the messages in ok are parsed, the others
\* are dropped; storeEmails then issues one findOrCreate for each.
GetDetails(r, ok) ==
  /\ req[r].pc = "getting"
  /\ ok \subseteq req[r].list
  /\ ok # {} => /\ req[r].cred # NULL
                /\ ok \subseteq MailboxOf(AcctOf(req[r].cred))
  /\ Goto(r, [req[r] EXCEPT
               !.pc = "storing", !.list = ok, !.ev = "fetched",
               !.failed = Cardinality(req[r].list \ ok),
               !.toStore = {parseEmailMessage(m, remoteLabels[m], remoteHeaders[m], req[r].inst.id) :
                              m \in ok}])
  /\ UNCHANGED <<now, users, emails, remoteLabels, remoteHeaders, remoteEdits, gmail, jwts, started>>

\* A create without the find, as a store without the unique index would do.
FindOrCreate_CreateOnly(rows, emailData) ==
  rows \cup {[id |-> Cardinality(rows) + 1] @@ emailData}

\* EmailMetadata.findOrCreate({where: {userId, messageId}, defaults}): one
\* transaction under the unique index (userId, messageId).
FindOrCreate(rows, emailData) ==
  IF \E row \in rows :
       row.userId = emailData.userId /\ row.messageId = emailData.messageId
  THEN rows
  ELSE rows \cup {[id |-> Cardinality(rows) + 1] @@ emailData}

\* One of the findOrCreate operations of storeEmails reaches the database.
StoreOne(r, emailData) ==
  /\ req[r].pc = "storing"
  /\ emailData \in req[r].toStore
  /\ emails' = FindOrCreate(emails, emailData)
  /\ Goto(r, [req[r] EXCEPT !.toStore = @ \ {emailData},
                            !.ev = IF emails' = emails THEN "store_found"
                                   ELSE "store_created"])
  /\ UNCHANGED <<now, users, remoteLabels, remoteHeaders, remoteEdits, gmail, jwts, started>>

\* A count of all rows of the user, as findByUser without a where clause
\* would give.
FindByUserCount_AllOfUser(rows, userId, ids) ==
  Cardinality({row \in rows : row.userId = userId})

\* EmailMetadata.findByUser(userId, {where: {gmailMessageId: ids}}).count
FindByUserCount(rows, userId, ids) ==
  Cardinality({row \in rows : row.userId = userId /\ row.gmailMessageId \in ids})

\* findByUser over the synced ids, then the response.
Report(r) ==
  /\ req[r].pc = "storing"
  /\ req[r].toStore = {}
  /\ LET q == req[r]
     IN FetchDone(r, q, IF q.failed > 0 THEN "synced_partial" ELSE "synced",
                  FindByUserCount(emails, q.inst.id, q.list))
  /\ UNCHANGED <<now, users, emails, remoteLabels, remoteHeaders, remoteEdits, gmail, jwts, started>>

\* ------------------------------------------------------------ searchEmails
\* The Gmail query searchEmails composes (the parts joined by blanks).
GmailQuery(so) ==
  so.query
  \o (IF so.sender # <<>> THEN <<"from:">> \o so.sender ELSE <<>>)
  \o (IF so.isUnread = "true" THEN <<"is:unread">> ELSE <<>>)

\* The remote messages whose subject, sender or snippet contains the term:
\* every message contains the empty term, the first message of a mailbox
\* contains every term.
Mentions(m, term) == term = <<>> \/ (m - 1) % MaxMsgs = 0

\* EmailMetadata.searchEmails(userId, searchTerm): the matching rows.
LocalSearch(userId, term) ==
  {row \in emails : row.userId = userId /\ Mentions(row.gmailMessageId, term)}

\* The response of POST /emails/search for the matching rows.
SearchResponse(found) ==
  [Resp(200, "NONE") EXCEPT !.count = Cardinality(found), !.owners = Owners(found)]

\* A condition that syncs whenever the page is not full.
NeedsRemote_IgnoresQuery(count, limit, searchQuery) == count < limit

\* searchEmails: fetch from Gmail when the local rows do not fill the page
\* and there is a Gmail query.
NeedsRemote(count, limit, searchQuery) == count < limit /\ searchQuery # <<>>

\* The local search answers: its results are returned, or fetchEmails is
\* called with the Gmail query (the search keeps its term and page size for
\* the second local search).
SearchLocal(r) ==
  /\ req[r].pc = "search_local"
  /\ LET so == req[r].search
         count == Cardinality(LocalSearch(req[r].inst.id, so.query))
         kept == [NoSearch EXCEPT !.query = so.query, !.limit = so.limit]
     IN IF NeedsRemote(count, so.limit, GmailQuery(so))
        THEN FetchEmailsBegin(r, [req[r] EXCEPT !.search = [kept EXCEPT !.fetches = 1]])
        ELSE /\ Finish(r, "search", "search_local", <<>>,
                       SearchResponse(LocalSearch(req[r].inst.id, so.query)))
             /\ UNCHANGED gmail
  /\ UNCHANGED <<now, users, emails, remoteLabels, remoteHeaders, remoteEdits, jwts, started>>

\* The second local search answers, after fetchEmails.
SearchAgain(r) ==
  /\ req[r].pc = "search_again"
  /\ Finish(r, "search", "search_remote", <<>>,
            SearchResponse(LocalSearch(req[r].inst.id, req[r].search.query)))
  /\ UNCHANGED <<now, users, emails, remoteLabels, remoteHeaders, remoteEdits, gmail, jwts, started>>

\* ------------------------------------------------------------ GET /emails
\* Math.ceil(a / b) for a >= 0, b >= 1.
Ceil(a, b) == (a + b - 1) \div b

\* The pagination object of GET /emails for count matching rows.
Pagination(count, page, limit) ==
  [currentPage |-> page,
   totalPages |-> Ceil(count, limit),
   totalCount |-> count,
   limit |-> limit,
   hasNextPage |-> page < Ceil(count, limit),
   hasPrevPage |-> page > 1]

\* findAndCountAll({limit, offset}).rows: the rows in their order (here by
\* id) after the first offset ones, at most limit of them.
PageRows(rows, limit, offset) ==
  {row \in rows : LET rank == Cardinality({other \in rows : other.id <= row.id})
                  IN rank > offset /\ rank <= offset + limit}

\* The database answers GET /emails, then the response.
ListEmails(r) ==
  /\ req[r].pc = "list_db"
  /\ LET page == IF req[r].query.page = <<>> THEN DefaultPage ELSE ParseInt(req[r].query.page)
         limit == IF req[r].query.limit = <<>> THEN DefaultPageSize
                  ELSE ParseInt(req[r].query.limit)
         offset == (page - 1) * limit
         found == {row \in emails : row.userId = req[r].inst.id}
     IN Finish(r, "list", "listed_page", <<>>,
               [Resp(200, "NONE") EXCEPT
                  !.count = Cardinality(PageRows(found, limit, offset)),
                  !.owners = Owners(PageRows(found, limit, offset)),
                  !.pagination = Pagination(Cardinality(found), page, limit)])
  /\ UNCHANGED <<now, users, emails, remoteLabels, remoteHeaders, remoteEdits, gmail, jwts, started>>

\* --------------------------------------------------- GET /emails/<segment>
\* A lookup by id alone, whoever the row belongs to.
FindOne_AnyUser(rows, id, userId) == {row \in rows : row.id = id}

\* EmailMetadata.findOne({where: {id, userId}}): the row, if there is one.
FindOne(rows, id, userId) == {row \in rows : row.id = id /\ row.userId = userId}

\* The database answers GET /emails/:emailId, then the response.
Detail(r) ==
  /\ req[r].pc = "detail_db"
  /\ LET found == FindOne(emails, ToInt(req[r].put.path), req[r].inst.id)
     IN IF found = {}
        THEN Finish(r, "detail", "not_found", <<>>, Resp(404, "EMAIL_NOT_FOUND"))
        ELSE Finish(r, "detail", "found", <<>>,
                    [Resp(200, "NONE") EXCEPT !.count = 1, !.owners = Owners(found)])
  /\ UNCHANGED <<now, users, emails, remoteLabels, remoteHeaders, remoteEdits, gmail, jwts, started>>

\* ------------------------------------------------------------ getEmailStats
\* The messages received today: the first message of every mailbox.
ReceivedToday(row) == (row.gmailMessageId - 1) % MaxMsgs = 0

\* The four counts of getEmailStats, each its own query.
CountTotal(rows, userId) == Cardinality({row \in rows : row.userId = userId})
GetUnreadCount(rows, userId) ==
  Cardinality({row \in rows : row.userId = userId /\ ~row.isRead})
CountStarred(rows, userId) ==
  Cardinality({row \in rows : row.userId = userId /\ row.isStarred})
CountToday(rows, userId) ==
  Cardinality({row \in rows : row.userId = userId /\ ReceivedToday(row)})

\* One of the counts answers: the next count is issued, and after the last
\* one the route answers with the four counts.
StatsCount(r) ==
  /\ req[r].pc \in {"stats_total", "stats_unread", "stats_starred", "stats_today"}
  /\ LET q == req[r]
         userId == q.inst.id
     IN IF q.pc = "stats_total"
        THEN Goto(r, [q EXCEPT !.pc = "stats_unread", !.ev = "counting",
                               !.stats.total = CountTotal(emails, userId)])
        ELSE IF q.pc = "stats_unread"
        THEN Goto(r, [q EXCEPT !.pc = "stats_starred", !.ev = "counting",
                               !.stats.unread = GetUnreadCount(emails, userId)])
        ELSE IF q.pc = "stats_starred"
        THEN Goto(r, [q EXCEPT !.pc = "stats_today", !.ev = "counting",
                               !.stats.starred = CountStarred(emails, userId)])
        ELSE Finish(r, "stats", "stats_done", <<>>,
                    [Resp(200, "NONE") EXCEPT
                       !.stats = [q.stats EXCEPT !.today = CountToday(emails, userId)]])
  /\ UNCHANGED <<now, users, emails, remoteLabels, remoteHeaders, remoteEdits, gmail, jwts, started>>

\* ------------------------------------------------- PUT /emails/<segment>
\* validateEmailId and handleValidationErrors of /:emailId: a segment that is
\* not a positive integer is answered 400, else the handler issues findOne.
PutValidate(r) ==
  /\ req[r].pc = "put_validate"
  /\ LET seg == req[r].put.path
     IN IF IsInt(seg) /\ ToInt(seg) >= 1
        THEN Goto(r, [req[r] EXCEPT !.pc = "put_db", !.ev = "validated"])
        ELSE Finish(r, "put", "validation_failed", <<>>, Resp(400, "VALIDATION_ERROR"))
  /\ UNCHANGED <<now, users, emails, remoteLabels, remoteHeaders, remoteEdits, gmail, jwts, started>>

\* EmailMetadata.update({[action]: value}, {where: {id: emailIds, userId}})
BulkUpdate(rows, emailIds, userId, action, value) ==
  {IF row.id \in emailIds /\ row.userId = userId THEN [row EXCEPT ![action] = value] ELSE row :
     row \in rows}

\* email.update(updateData) of PUT /:emailId: the booleans of the body.
UpdateOne(row, isRead, isStarred) ==
  [row EXCEPT !.isRead = IF isRead = "null" THEN @ ELSE isRead = "true",
              !.isStarred = IF isStarred = "null" THEN @ ELSE isStarred = "true"]

\* The database answers the handler: the update of /bulk, then its
\* response; or the findOne of /:emailId, then 404 or email.update.
PutDb(r) ==
  /\ req[r].pc = "put_db"
  /\ LET p == req[r].put
         userId == req[r].inst.id
     IN IF PutRoute(p.path) = "/bulk"
        THEN /\ emails' = BulkUpdate(emails, p.emailIds, userId, p.action, p.value)
             /\ Finish(r, "put", "bulk_updated", <<>>,
                       [Resp(200, "NONE") EXCEPT
                          !.count = Cardinality({row \in emails : /\ row.id \in p.emailIds
                                                                  /\ row.userId = userId})])
        ELSE /\ UNCHANGED emails
             /\ IF FindOne(emails, ToInt(p.path), userId) # {}
                THEN Goto(r, [req[r] EXCEPT !.pc = "put_save", !.ev = "found"])
                ELSE Finish(r, "put", "not_found", <<>>, Resp(404, "EMAIL_NOT_FOUND"))
  /\ UNCHANGED <<now, users, remoteLabels, remoteHeaders, remoteEdits, gmail, jwts, started>>

\* email.update(updateData) answers, then the response of PUT /:emailId.
PutSave(r) ==
  /\ req[r].pc = "put_save"
  /\ LET p == req[r].put
     IN emails' = {IF row.id = ToInt(p.path) THEN UpdateOne(row, p.isRead, p.isStarred) ELSE row :
                     row \in emails}
  /\ Finish(r, "put", "updated", <<>>,
            [Resp(200, "NONE") EXCEPT
               !.owners = Owners({row \in emails : row.id = ToInt(req[r].put.path)})])
  /\ UNCHANGED <<now, users, remoteLabels, remoteHeaders, remoteEdits, gmail, jwts, started>>

\* ----------------------------------------------- logout, account deletion
\* After revokeTokens: logout responds, account deletion goes on.
AfterRevoke(r, q, ev) ==
  IF q.kind = "logout" THEN Finish(r, q.kind, ev, <<>>, Resp(200, "NONE"))
  ELSE Goto(r, [q EXCEPT !.pc = "deactivate", !.ev = ev])

\* revokeCredentials answers: on success the tokens are cleared, on failure
\* the error is logged and nothing is written.
RevokeResponse(r, ok) ==
  /\ req[r].pc = "revoking"
  /\ LET q == req[r]
     IN IF ok
        THEN /\ users' = [users EXCEPT ![q.inst.id] = ClearTokens(@)]
             /\ AfterRevoke(r, [q EXCEPT !.inst = ClearTokens(@)], "revoked")
        ELSE /\ AfterRevoke(r, q, "revoke_failed")
             /\ UNCHANGED users
  /\ UNCHANGED <<now, emails, remoteLabels, remoteHeaders, remoteEdits, gmail, jwts, started>>

\* The update of revokeTokens for a user without an access token.
RevokeClear(r) ==
  /\ req[r].pc = "clearing"
  /\ users' = [users EXCEPT ![req[r].inst.id] = ClearTokens(@)]
  /\ AfterRevoke(r, [req[r] EXCEPT !.inst = ClearTokens(@)], "revoked")
  /\ UNCHANGED <<now, emails, remoteLabels, remoteHeaders, remoteEdits, gmail, jwts, started>>

\* DELETE /auth/account: req.user.update({isActive: false}).
Deactivate(r) ==
  /\ req[r].pc = "deactivate"
  /\ users' = [users EXCEPT ![req[r].inst.id] = [@ EXCEPT !.isActive = FALSE]]
  /\ Finish(r, "delete", "deleted", <<>>, Resp(200, "NONE"))
  /\ UNCHANGED <<now, emails, remoteLabels, remoteHeaders, remoteEdits, gmail, jwts, started>>

\* ------------------------------------------------------- specifications
\* The token lifecycle: logins, authenticated requests, the script, the
\* clock.  The remote mailboxes answer with an empty page or an error.
Next ==
  \/ Tick
  \/ \E r \in Reqs, why \in {"oauth_error", "auth_failed"} : CallbackRejected(r, why)
  \/ \E r \in Reqs, g \in GoogleIds, life \in Lifetimes, verified_email \in BOOLEAN :
       \E at \in TokensOf(g), rt \in TokensOf(g) \cup {NULL} :
         Callback(r, g, 1, at, rt, life, verified_email)
  \/ \E r \in Reqs : CbUpdate(r)
  \/ \E r \in Reqs, kind \in {"sync", "logout", "delete"}, uid \in UserIds :
       Authenticate(r, kind, uid)
  \/ \E r \in Reqs : MwReload(r)
  \/ \E r \in Reqs, g \in GoogleIds, life \in Lifetimes :
       \E at \in TokensOf(g) : RefreshOk(r, at, life)
  \/ \E r \in Reqs, e \in RefreshErrors : RefreshFail(r, e)
  \/ \E r \in Reqs, u \in UserIds : Script(r, u)
  \/ \E r \in Reqs : IcReload(r)
  \/ \E r \in Reqs, code \in ApiErrorCodes, msg \in ApiErrorTexts : ListFail(r, code, msg)
  \/ \E r \in Reqs : ListOk(r, {})
  \/ \E r \in Reqs : RevokeResponse(r, TRUE)
  \/ \E r \in Reqs : RevokeResponse(r, FALSE)
  \/ \E r \in Reqs : RevokeClear(r)
  \/ \E r \in Reqs : Deactivate(r)

Spec == Init /\ [][Next]_vars

\* The sync pipeline: a user who logged in (the provider reported no
\* lifetime) syncs, over HTTP or with the script, while labels change on the
\* remote side.
InitSync ==
  /\ now = 1
  /\ users = <<LoginDefaults([NoTok EXCEPT !.googleId = 1, !.verified_email = TRUE, !.name = 1, !.loginAt = 1,
                                            !.access_token = 1, !.refresh_token = MaxSerial,
                                            !.tokenExpiry = ComputeExpiry(1, NULL)])>>
  /\ emails = {}
  /\ remoteLabels = [m \in AllMsgs |-> {"UNREAD"}]
  /\ remoteHeaders = [m \in AllMsgs |-> <<>>]
  /\ remoteEdits = 0
  /\ gmail = NULL
  /\ jwts = {1}
  /\ req = [r \in Reqs |-> Idle]
  /\ started = 0
  /\ last = NoLast

\* The payloads parseEmailMessage can produce.
AllPayloads ==
  {parseEmailMessage(m, ls, <<>>, u) : m \in AllMsgs, ls \in SUBSET Labels, u \in UserIds}

NextSync ==
  \/ \E m \in AllMsgs, l \in Labels : RemoteEdit(m, l)
  \/ \E r \in Reqs, uid \in UserIds : Authenticate(r, "sync", uid)
  \/ \E r \in Reqs, u \in UserIds : Script(r, u)
  \/ \E r \in Reqs, code \in ApiErrorCodes, msg \in ApiErrorTexts : ListFail(r, code, msg)
  \/ \E r \in Reqs, ids \in SUBSET AllMsgs : ListOk(r, ids)
  \/ \E r \in Reqs, ok \in SUBSET AllMsgs : GetDetails(r, ok)
  \/ \E r \in Reqs, emailData \in AllPayloads : StoreOne(r, emailData)
  \/ \E r \in Reqs : Report(r)

SpecSync == InitSync /\ [][NextSync]_vars

\* Search and sync requests of one user, who is logged in as in InitSync or
\* has logged out since (the credentials cleared).
InitSearch ==
  /\ now = 1
  /\ \E row \in {LoginDefaults([NoTok EXCEPT !.googleId = 1, !.verified_email = TRUE, !.name = 1, !.loginAt = 1,
                                             !.access_token = 1, !.refresh_token = MaxSerial,
                                             !.tokenExpiry = ComputeExpiry(1, NULL)])} :
       users \in {<<row>>, <<ClearTokens(row)>>}
  /\ emails = {}
  /\ remoteLabels = [m \in AllMsgs |-> {"UNREAD"}]
  /\ remoteHeaders = [m \in AllMsgs |-> <<>>]
  /\ remoteEdits = 0
  /\ gmail = NULL
  /\ jwts = {1}
  /\ req = [r \in Reqs |-> Idle]
  /\ started = 0
  /\ last = NoLast

NextSearch ==
  \/ \E r \in Reqs, kind \in {"sync", "search"}, uid \in UserIds : Authenticate(r, kind, uid)
  \/ \E r \in Reqs : SearchLocal(r)
  \/ \E r \in Reqs : SearchAgain(r)
  \/ \E r \in Reqs, code \in ApiErrorCodes, msg \in ApiErrorTexts : ListFail(r, code, msg)
  \/ \E r \in Reqs, ids \in SUBSET AllMsgs : ListOk(r, ids)
  \/ \E r \in Reqs, ok \in SUBSET AllMsgs : GetDetails(r, ok)
  \/ \E r \in Reqs, emailData \in AllPayloads : StoreOne(r, emailData)
  \/ \E r \in Reqs : Report(r)

SpecSearch == InitSearch /\ [][NextSearch]_vars

\* PUT requests of a logged-in user who has two rows of emails, next to a
\* row of another user.
InitPut ==
  /\ now = 1
  /\ \E row \in {LoginDefaults([NoTok EXCEPT !.googleId = 1, !.verified_email = TRUE, !.name = 1, !.loginAt = 1,
                                             !.access_token = 1, !.refresh_token = MaxSerial,
                                             !.tokenExpiry = ComputeExpiry(1, NULL)])} :
       users = <<row, ClearTokens([row EXCEPT !.googleId = MaxAccounts + 1])>>
  /\ emails = {[id |-> m] @@ parseEmailMessage(m, {"UNREAD"}, <<>>,
                                                   IF m <= MaxMsgs THEN 1 ELSE 2) :
                 m \in RowIds}
  /\ remoteLabels = [m \in AllMsgs |-> {"UNREAD"}]
  /\ remoteHeaders = [m \in AllMsgs |-> <<>>]
  /\ remoteEdits = 0
  /\ gmail = NULL
  /\ jwts = {1}
  /\ req = [r \in Reqs |-> Idle]
  /\ started = 0
  /\ last = NoLast

NextPut ==
  \/ \E r \in Reqs, uid \in UserIds : Authenticate(r, "put", uid)
  \/ \E r \in Reqs : PutValidate(r)
  \/ \E r \in Reqs : PutDb(r)
  \/ \E r \in Reqs : PutSave(r)

SpecPut == InitPut /\ [][NextPut]_vars

\* GET /emails of a logged-in user who has 0..MaxCount rows, one request at
\* a time.
InitList ==
  /\ now = 1
  /\ users = <<LoginDefaults([NoTok EXCEPT !.googleId = 1, !.verified_email = TRUE, !.name = 1, !.loginAt = 1,
                                            !.access_token = 1, !.refresh_token = MaxSerial,
                                            !.tokenExpiry = ComputeExpiry(1, NULL)])>>
  /\ \E n \in 0 .. MaxCount :
       emails = {[id |-> i, userId |-> 1, messageId |-> i, isRead |-> FALSE,
                  isStarred |-> FALSE, labels |-> {"UNREAD"}, priority |-> "medium",
                  gmailMessageId |-> i] :
                   i \in 1 .. n}
  /\ remoteLabels = [m \in AllMsgs |-> {"UNREAD"}]
  /\ remoteHeaders = [m \in AllMsgs |-> <<>>]
  /\ remoteEdits = 0
  /\ gmail = NULL
  /\ jwts = {1}
  /\ req = [r \in Reqs |-> Idle]
  /\ started = 0
  /\ last = NoLast

NextList ==
  \/ \E r \in {1}, uid \in UserIds : Authenticate(r, "list", uid)
  \/ \E r \in {1} : ListEmails(r)

SpecList == InitList /\ [][NextList]_vars

\* Syncs of a logged-in user, one at a time, whose first remote message
\* carries any of the label sets and header lists.
InitPriority ==
  /\ now = 1
  /\ users = <<LoginDefaults([NoTok EXCEPT !.googleId = 1, !.verified_email = TRUE, !.name = 1, !.loginAt = 1,
                                            !.access_token = 1, !.refresh_token = MaxSerial,
                                            !.tokenExpiry = ComputeExpiry(1, NULL)])>>
  /\ emails = {}
  /\ \E ls \in SUBSET PriorityLabels :
       remoteLabels = [m \in AllMsgs |-> IF m = 1 THEN ls ELSE {"UNREAD"}]
  /\ \E hs \in HeaderLists :
       remoteHeaders = [m \in AllMsgs |-> IF m = 1 THEN hs ELSE <<>>]
  /\ remoteEdits = 0
  /\ gmail = NULL
  /\ jwts = {1}
  /\ req = [r \in Reqs |-> Idle]
  /\ started = 0
  /\ last = NoLast

\* The payloads parseEmailMessage can produce for the first message.
PriorityPayloads ==
  {[parseEmailMessage(1, ls, <<>>, 1) EXCEPT !.priority = p] :
     ls \in SUBSET PriorityLabels, p \in {"high", "medium", "low"}}

NextPriority ==
  \/ \E r \in {1}, uid \in UserIds : Authenticate(r, "sync", uid)
  \/ \E r \in {1}, ids \in {{1}} : ListOk(r, ids)
  \/ \E r \in {1}, ok \in {{}, {1}} : GetDetails(r, ok)
  \/ \E r \in {1}, emailData \in PriorityPayloads : StoreOne(r, emailData)
  \/ \E r \in {1} : Report(r)

SpecPriority == InitPriority /\ [][NextPriority]_vars

\* Logins of several identities, whose profiles change between logins (the
\* provider reports no lifetime, and no or one refresh token per identity).
NextLogin ==
  \/ Tick
  \/ \E r \in Reqs, g \in 1 .. MaxLoginIds, name \in 1 .. MaxNames :
       \E at \in TokensOf(g), rt \in {NULL, g * MaxSerial} :
         Callback(r, g, name, at, rt, NULL, TRUE)
  \/ \E r \in Reqs : CbUpdate(r)

SpecLogin == Init /\ [][NextLogin]_vars

\* ------------------------------------------------------------- properties
\* The fields of a row that come from the sync payload.
Payload(row) == [f \in DOMAIN row \ {"id"} |-> row[f]]

\* Row and payload name the same message of the same user.
SameMessage(row, emailData) ==
  /\ row.userId = emailData.userId
  /\ row.gmailMessageId = emailData.gmailMessageId

\* This step is storeEmails' findOrCreate of emailData for request r.
Stores(r, emailData) ==
  /\ req[r].pc = "storing"
  /\ emailData \in req[r].toStore
  /\ req'[r].toStore = req[r].toStore \ {emailData}

\* C1: after every step of every interleaving of syncs the store holds at
\* most one row per (user, remote message), and storing a message whose row
\* exists with the same payload leaves the store, hence that row, unchanged.
C1_OneRowPerMessage ==
  [][/\ \A a, b \in emails' : SameMessage(a, b) => a = b
     /\ \A r \in Reqs, d \in AllPayloads :
          (Stores(r, d) /\ \E row \in emails : Payload(row) = d) => emails' = emails
    ]_vars

\* A sync has stored a message for the second time, nothing having changed
\* on the remote side.
C1_Witness ==
  \E r \in Reqs :
    /\ req[r].ev = "store_found"
    /\ remoteEdits = 0
    /\ \E row \in emails : row.userId = req[r].inst.id /\ row.gmailMessageId \in req[r].list

\* C2: storing a message whose row exists creates no row and leaves that row
\* with the isRead, isStarred and labels of the payload, its other fields as
\* they were.
C2_UpdatedOnResync ==
  [][\A r \in Reqs, d \in AllPayloads :
       (Stores(r, d) /\ \E row \in emails : SameMessage(row, d)) =>
         /\ Cardinality(emails') = Cardinality(emails)
         /\ \A row \in emails : SameMessage(row, d) =>
              [row EXCEPT !.isRead = d.isRead, !.isStarred = d.isStarred,
                          !.labels = d.labels] \in emails'
    ]_vars

\* Request r takes this step.
Moves(r) == req'[r] # req[r]

Refreshing == {"mw_refreshing", "ic_refreshing"}

\* This step is the provider's answer ev to the refresh exchange of request r.
RefreshAnswered(r, ev) ==
  /\ req[r].pc \in Refreshing
  /\ Moves(r)
  /\ ev \in {last'.ev, req'[r].ev}

\* C3: when the provider rejects the refresh exchange with invalid_grant, the
\* user's accessToken, refreshToken and tokenExpiry are null after that step,
\* the error thrown is one the re-authentication branch recognises, and the
\* operation has ended without another refresh call.
C3_InvalidGrantClears ==
  [][\A r \in Reqs : RefreshAnswered(r, "refresh_invalid_grant") =>
       /\ users'[req[r].inst.id].accessToken = NULL
       /\ users'[req[r].inst.id].refreshToken = NULL
       /\ users'[req[r].inst.id].tokenExpiry = NULL
       /\ IsAuthenticationError(last'.err)
       /\ req'[r].pc = "idle"
    ]_vars

\* The refresh of a user whose credentials were still stored was rejected
\* with invalid_grant.
C3_Witness ==
  /\ last.ev = "refresh_invalid_grant"
  /\ Includes(last.err, P_invalid_grant) \/ Includes(last.err, P_reauthenticate)
  /\ \E u \in DOMAIN users : users[u].refreshToken = NULL /\ users[u].isActive

\* C4: when the refresh exchange fails for another reason than invalid_grant,
\* that step leaves every user row, so accessToken, refreshToken and
\* tokenExpiry, as it was.
C4_TransientKeepsCredentials ==
  [][\A r \in Reqs : RefreshAnswered(r, "refresh_transient") => users' = users]_vars

\* A refresh failed for a transient reason and the credentials are stored.
C4_Witness ==
  /\ last.ev = "refresh_transient"
  /\ \E u \in DOMAIN users :
       users[u].accessToken # NULL /\ users[u].refreshToken # NULL /\ users[u].tokenExpiry # NULL

\* What the middleware and the sync route answer after invalid_grant.
InvalidGrantOutcomes ==
  LET thrown == RefreshAccessTokenCatch(InnerRefreshError(<<"invalid_grant">>))
  IN {RefreshFailedResponse(thrown),
      SyncErrorResponse(FetchEmailsCatch(InitializeClientCatch(InitRefreshCatch(thrown))))}

\* C5: the response to a request whose refresh failed for a transient reason
\* does not ask for re-authentication and differs from the responses given
\* after invalid_grant.
C5_TransientDistinct ==
  (last.ev = "refresh_transient" /\ last.kind \in AuthKinds) =>
    /\ ~last.resp.requiresAuth
    /\ last.resp \notin InvalidGrantOutcomes

\* This step takes request r through the expiry check for user u: it is
\* the answer of findByPk, of findOne or of the middleware's reload, and the
\* request goes on with u.
Checks(r, u) ==
  /\ req[r].pc \in {"idle", "mw_reload"}
  /\ Moves(r)
  /\ req'[r].kind \in AuthKinds \cup {"script"}
  /\ req'[r].inst.id = u

\* C6: when the stored access token has not expired, the check sends no
\* refresh, leaves the user rows unchanged, and a sync goes on with the stored
\* access token on the shared client.
C6_ValidTokenUntouched ==
  [][\A r \in Reqs, u \in DOMAIN users :
       (Checks(r, u) /\ users[u].tokenExpiry # NULL /\ now <= users[u].tokenExpiry) =>
         /\ req'[r].pc \notin Refreshing
         /\ users' = users
         /\ req'[r].kind \in {"sync", "script"} =>
              /\ req'[r].pc = "listing"
              /\ req'[r].cred = users[u].accessToken
              /\ gmail' = users[u].accessToken
    ]_vars

\* A sync of a user with an unexpired token has called messages.list.
C6_Witness ==
  \E r \in Reqs :
    /\ req[r].pc = "listing"
    /\ req[r].ev = "valid"
    /\ now <= users[req[r].inst.id].tokenExpiry
    /\ req[r].cred = users[req[r].inst.id].accessToken

\* C7: the check of a user whose expiry equals the current time sends a
\* refresh, the check of a user whose expiry is one second later sends none.
C7_ExpiryBoundary ==
  [][\A r \in Reqs, u \in DOMAIN users :
       (Checks(r, u) /\ users[u].refreshToken # NULL) =>
         /\ users[u].tokenExpiry = now => req'[r].pc \in Refreshing
         /\ users[u].tokenExpiry = now + 1 => req'[r].pc \notin Refreshing
    ]_vars

\* C8: a sync or a refresh of a user without refresh token, the access
\* token expired or absent, fails with an error the sync route's
\* re-authentication branch recognises, and the sync route answers
\* AUTHENTICATION_REQUIRED.
C8_NoRefreshTokenNeedsReauth ==
  last.ev \in {"ic_no_tokens", "ic_no_refresh_token", "mw_no_refresh_token"} =>
    /\ IsAuthenticationError(last.err)
    /\ last.ev # "mw_no_refresh_token" /\ last.kind = "sync" =>
         last.resp.error = "AUTHENTICATION_REQUIRED"

\* C9: accessToken is null exactly when tokenExpiry is null, for every user
\* in every reachable state.
C9_TokenAndExpiryTogether ==
  \A u \in DOMAIN users : (users[u].accessToken = NULL) <=> (users[u].tokenExpiry = NULL)

\* A refresh that started before a logout cleared the credentials has
\* stored its access token.
C9_Witness ==
  \E r \in Reqs :
    /\ req[r].ev = "refresh_ok"
    /\ users[req[r].inst.id].refreshToken = NULL
    /\ users[req[r].inst.id].accessToken # NULL

\* C10: a successful refresh and a repeat login without refresh token leave
\* the stored refresh token as it is, and a refresh token becomes null only
\* in a step of revokeTokens or of the invalid_grant clearing.
C10_RefreshTokenKept ==
  [][/\ \A r \in Reqs : RefreshAnswered(r, "refresh_ok") =>
          users'[req[r].inst.id].refreshToken = users[req[r].inst.id].refreshToken
     /\ \A r \in Reqs :
          (req[r].pc = "cb_update" /\ Moves(r) /\ req[r].tok.refresh_token = NULL) =>
            users'[req[r].inst.id].refreshToken = users[req[r].inst.id].refreshToken
     /\ \A u \in DOMAIN users :
          (users[u].refreshToken # NULL /\ users'[u].refreshToken = NULL) =>
            \/ \E r \in Reqs : req[r].pc \in {"revoking", "clearing"} /\ Moves(r)
            \/ \E r \in Reqs : RefreshAnswered(r, "refresh_invalid_grant")
    ]_vars

\* C11: the token strings a login or a refresh supplies are the strings the
\* store holds after the write, and a reload hands the stored strings to the
\* request: a created user holds tokens of the provider, an updated user the
\* access token (and the refresh token, when one came) of the exchange, a
\* refreshed user the access token of the refresh.
C11_TokensStoredVerbatim ==
  [][/\ Len(users') > Len(users) =>
          LET row == users'[Len(users')]
          IN /\ row.accessToken \in TokensOf(row.googleId)
             /\ row.refreshToken \in TokensOf(row.googleId) \cup {NULL}
     /\ \A r \in Reqs : (req[r].pc = "cb_update" /\ Moves(r)) =>
          /\ users'[req[r].inst.id].accessToken = req[r].tok.access_token
          /\ req[r].tok.refresh_token # NULL =>
               users'[req[r].inst.id].refreshToken = req[r].tok.refresh_token
     /\ \A r \in Reqs : RefreshAnswered(r, "refresh_ok") =>
          users'[req[r].inst.id].accessToken = req'[r].tok.access_token
     /\ \A r \in Reqs :
          (req[r].pc \in {"mw_reload", "ic_reload"} /\ Moves(r) /\ req'[r].pc # "idle") =>
            /\ req'[r].inst.accessToken = users[req[r].inst.id].accessToken
            /\ req'[r].inst.refreshToken = users[req[r].inst.id].refreshToken
    ]_vars

\* A sync goes on after refresh and reload with the access token the refresh
\* returned, the refresh token of the login still stored.
C11_Witness ==
  \E r \in Reqs :
    /\ req[r].pc = "listing"
    /\ req[r].ev = "refresh_ok"
    /\ req[r].cred = users[req[r].inst.id].accessToken
    /\ users[req[r].inst.id].refreshToken \in TokensOf(req[r].inst.googleId)

\* C12: a callback whose identity has an unverified email creates no user,
\* changes no user row, issues no session token and redirects to the login
\* page; no update of a user is in flight for such an identity.
C12_UnverifiedRejected ==
  [][/\ (last'.ident.googleId # NULL /\ ~last'.ident.verified_email) =>
          /\ users' = users
          /\ jwts' = jwts
          /\ last'.resp.token = NULL
          /\ last'.resp.error = "email_not_verified"
     /\ \A r \in Reqs : req'[r].pc = "cb_update" => req'[r].tok.verified_email
    ]_vars

\* An identity with an unverified email was turned away while a user with
\* that googleId exists.
C12_Witness ==
  /\ last.ev = "email_not_verified"
  /\ ~last.ident.verified_email
  /\ \E u \in DOMAIN users : users[u].googleId = last.ident.googleId

\* The ways a request fails because re-authentication is required: no
\* refresh token (in the middleware, in initializeClient), the refresh token
\* rejected, the mail API answering 401.
ReauthEvents ==
  {"mw_no_refresh_token", "ic_no_tokens", "ic_no_refresh_token", "refresh_invalid_grant",
   "list_failed_401"}

\* C13: a failed sync or search request carries requiresAuth = true exactly
\* when it failed because re-authentication is required.
C13_RequiresAuthFlag ==
  (last.kind \in {"sync", "search"} /\ last.resp.status \notin {NULL, 200}) =>
    (last.resp.requiresAuth <=> last.ev \in ReauthEvents)

\* C14: when the message-list call of a sync fails, the answer of the sync
\* endpoint is decided by the remote status alone: 401, 403 and 429 give
\* their own answers and every other remote error gives 500 EMAIL_SYNC_FAILED,
\* whatever the remote error message says.
C14_ListFailureByStatus ==
  last.kind = "sync" =>
    /\ last.ev = "list_failed_401" =>
         (last.resp.status = 401 /\ last.resp.error = "AUTHENTICATION_REQUIRED")
    /\ last.ev = "list_failed_403" =>
         (last.resp.status = 403 /\ last.resp.error = "ACCESS_FORBIDDEN")
    /\ last.ev = "list_failed_429" =>
         (last.resp.status = 429 /\ last.resp.error = "RATE_LIMIT_EXCEEDED")
    /\ last.ev = "list_failed_other" =>
         (last.resp.status = 500 /\ last.resp.error = "EMAIL_SYNC_FAILED")

FetchCalled(r) ==
  \/ req'[r].kind = "search" /\ req'[r].search.fetches = req[r].search.fetches + 1
  \/ /\ req'[r].pc = "idle"
     /\ last'.kind = "search"
     /\ last'.ev \in {"ic_no_tokens", "ic_no_refresh_token"}
\* C16: searchEmails calls fetchEmails exactly once when the local match
\* count is below the page size and the composed Gmail query is non-empty,
\* and not at all when the query is empty or the local matches fill the page.
C16_OneRemoteSync ==
  [][\A r \in Reqs :
       req[r].kind = "search" =>
         LET so == req[r].search
             count == Cardinality({row \in emails : /\ row.userId = req[r].inst.id
                                                    /\ Mentions(row.gmailMessageId, so.query)})
         IN /\ (req[r].pc = "search_local" /\ req'[r] # req[r]) =>
                 (FetchCalled(r) <=> (count < so.limit /\ GmailQuery(so) # <<>>))
            /\ (req[r].pc = "search_local" /\ req'[r] # req[r] /\ ~FetchCalled(r)) =>
                 (last'.kind = "search" /\ last'.ev = "search_local")
            /\ req[r].pc # "search_local" => ~FetchCalled(r)
            /\ so.fetches <= 1]_vars
\* A search with a Gmail query and too few local rows has gone through
\* fetchEmails once and ended with one matching row.
C16_Witness ==
  /\ last.kind = "search"
  /\ last.ev = "search_remote"
  /\ last.resp.status = 200
  /\ last.resp.count = 1

\* The request is past authenticateToken, in its route handler.
InHandler(q) ==
  q.kind \in AuthKinds /\ q.pc \notin {"idle", "mw_refreshing", "mw_reload"}
\* C17: a request gets past authenticateToken only with a session token that
\* verifies and for a user who exists and is active when the request is
\* checked; a request with the token of a deactivated user is answered
\* 401 INVALID_USER.
C17_ActiveUserOnly ==
  [][\A r \in Reqs :
       /\ (req[r].pc = "idle" /\ req'[r].kind \in AuthKinds) =>
            LET uid == req'[r].inst.id
            IN uid \in jwts /\ uid \in DOMAIN users /\ users[uid].isActive
       /\ (~InHandler(req[r]) /\ InHandler(req'[r])) => req'[r].inst.id \in jwts
       /\ (req[r].pc = "idle" /\ started' # started /\ req' = req /\ last'.kind \in AuthKinds) =>
            ((\A uid \in jwts : ~users[uid].isActive) =>
               /\ last'.ev = "mw_inactive"
               /\ last'.resp.status = 401
               /\ last'.resp.error = "INVALID_USER")]_vars
\* A request with the session token of a deactivated user has been rejected.
C17_Witness ==
  /\ last.kind \in AuthKinds
  /\ last.ev = "mw_inactive"
  /\ last.resp.error = "INVALID_USER"
  /\ \E uid \in jwts : ~users[uid].isActive

\* C18: when DELETE /auth/account has answered with success, the user's row
\* is inactive and holds no access token, no refresh token and no expiry,
\* whether or not the provider's revocation succeeded.
C18_DeletedAccountCleared ==
  [][\A r \in Reqs :
       (req[r].kind = "delete" /\ req'[r].pc = "idle" /\ last'.kind = "delete"
        /\ last'.resp.status = 200) =>
         LET u == users'[req[r].inst.id]
         IN /\ ~u.isActive
            /\ u.accessToken = NULL
            /\ u.refreshToken = NULL
            /\ u.tokenExpiry = NULL]_vars

\* C19: a PUT /emails/bulk request of an authenticated user with a
\* non-empty emailIds, an action in {isRead, isStarred} and a boolean value
\* ends with a success answer that counts the listed rows of the requester,
\* those rows have the field set to the value, and no other row has changed.
C19_BulkUpdate ==
  [][\A r \in Reqs :
       (req[r].kind = "put" /\ req[r].put.path = "bulk" /\ req[r].put.emailIds # {}
        /\ req'[r].pc = "idle") =>
         LET p == req[r].put
             owned == {row \in emails : row.id \in p.emailIds /\ row.userId = req[r].inst.id}
         IN /\ last'.kind = "put"
            /\ last'.resp.status = 200
            /\ last'.resp.count = Cardinality(owned)
            /\ emails' = {IF row \in owned THEN [row EXCEPT ![p.action] = p.value] ELSE row :
                            row \in emails}]_vars

\* C20: for a result count C >= 0, a page size L >= 1 and a page P >= 1 the
\* paginated list response has currentPage = P, totalPages = ceil(C/L),
\* hasNextPage exactly when P < totalPages, hasPreviousPage exactly when
\* P > 1, and min(L, max(0, C - (P-1)*L)) items; page 2 of 45 items with
\* size 20 gives totalPages 3, both flags true and 20 items.
C20_Pagination ==
  [][\A r \in Reqs :
       (req[r].kind = "list" /\ req[r].pc = "list_db" /\ req'[r].pc = "idle") =>
         LET C == Cardinality({row \in emails : row.userId = req[r].inst.id})
             P == IF req[r].query.page = <<>> THEN 1 ELSE ParseInt(req[r].query.page)
             L == IF req[r].query.limit = <<>> THEN 20 ELSE ParseInt(req[r].query.limit)
             totalPages == IF C % L = 0 THEN C \div L ELSE C \div L + 1
             rest == IF C - (P - 1) * L > 0 THEN C - (P - 1) * L ELSE 0
             pg == last'.resp.pagination
         IN /\ last'.resp.status = 200
            /\ pg.currentPage = P
            /\ pg.totalPages = totalPages
            /\ pg.hasNextPage = (P < totalPages)
            /\ last'.resp.count = (IF L < rest THEN L ELSE rest)
            /\ (C = 45 /\ L = 20 /\ P = 2) =>
                 (pg.totalPages = 3 /\ pg.hasNextPage /\ last'.resp.count = 20)
            /\ "hasPreviousPage" \in DOMAIN pg
            /\ pg.hasPreviousPage = (P > 1)]_vars

\* The lower-cased value of the first X-Priority or Priority header of a
\* header list (<<>>: there is none).
PriorityHeaderValue(headers) ==
  LET found == SelectSeq(headers, LAMBDA h : ToLowerCase(h.name) \in
                                     {<<"x", "-", "p", "r", "i", "o", "r", "i", "t", "y">>,
                                      <<"p", "r", "i", "o", "r", "i", "t", "y">>})
  IN IF found = <<>> THEN <<>> ELSE ToLowerCase(found[1].value)
\* The priority the claim gives a message with these labels and headers.
ExpectedPriority(labels, headers) ==
  LET value == PriorityHeaderValue(headers)
      saysHigh == Includes(value, <<"h", "i", "g", "h">>) \/ value = <<"1">>
      saysLow == Includes(value, <<"l", "o", "w">>) \/ value = <<"5">>
  IN IF labels \cap {"IMPORTANT", "CATEGORY_PROMOTIONS"} # {} THEN "high"
     ELSE IF saysHigh THEN "high"
     ELSE IF saysLow THEN "low"
     ELSE "medium"
\* C21: the priority of a parsed message is high when its labels contain
\* IMPORTANT or CATEGORY_PROMOTIONS, whatever its priority header says;
\* otherwise high when the header value contains high or is 1, low when it
\* contains low or is 5, medium in all other cases (no header included); and
\* it is always one of high, medium, low.
C21_Priority ==
  /\ \A r \in Reqs : \A d \in req[r].toStore :
       /\ d.priority \in {"high", "medium", "low"}
       /\ d.priority = ExpectedPriority(remoteLabels[d.gmailMessageId],
                                        remoteHeaders[d.gmailMessageId])
  /\ \A row \in emails :
       /\ row.priority \in {"high", "medium", "low"}
       /\ row.priority = ExpectedPriority(remoteLabels[row.gmailMessageId],
                                          remoteHeaders[row.gmailMessageId])
\* A message labelled IMPORTANT whose X-Priority header says 5 is stored
\* with priority high.
C21_Witness ==
  /\ "IMPORTANT" \in remoteLabels[1]
  /\ PriorityHeaderValue(remoteHeaders[1]) = <<"5">>
  /\ \E row \in emails : row.gmailMessageId = 1 /\ row.priority = "high"

\* C22: there is one user record per identity (googleId); the first login
\* of an identity creates it with the supplied profile and tokens, and every
\* later login overwrites the profile, the access token, the expiry and the
\* last login of that record and creates no other.
C22_OneUserPerIdentity ==
  [][/\ \A u, v \in DOMAIN users' : users'[u].googleId = users'[v].googleId => u = v
     /\ (last'.kind = "callback" /\ last'.ev = "login_created") =>
          LET g == last'.ident.googleId
              row == users'[Len(users')]
          IN /\ \A u \in DOMAIN users : users[u].googleId # g
             /\ Len(users') = Len(users) + 1
             /\ row.googleId = g
             /\ row.name = last'.ident.name
             /\ row.accessToken \in TokensOf(g)
             /\ row.refreshToken \in TokensOf(g) \cup {NULL}
             /\ row.lastLoginAt = now
             /\ row.tokenExpiry > now
     /\ \A r \in Reqs :
          (req[r].pc = "cb_update" /\ req'[r].pc = "idle") =>
            LET tok == req[r].tok
                row == users'[req[r].inst.id]
            IN /\ Len(users') = Len(users)
               /\ \A u \in DOMAIN users : u # req[r].inst.id => users'[u] = users[u]
               /\ row.googleId = tok.googleId
               /\ row.name = tok.name
               /\ row.accessToken = tok.access_token
               /\ row.tokenExpiry = tok.tokenExpiry
               /\ row.lastLoginAt = tok.loginAt]_vars
\* An identity has logged in a second time with another profile, and its
\* one record holds the new profile.
C22_Witness ==
  /\ last.kind = "callback"
  /\ last.ev = "login_updated"
  /\ last.ident.name = 2
  /\ \E u \in DOMAIN users :
       /\ users[u].googleId = last.ident.googleId
       /\ users[u].name = 2
       /\ users[u].lastLoginAt > 1

\* Request q runs concurrently with this step and has already issued its
\* write of the message of payload d.
WroteEarlier(q, d) ==
  /\ req[q].pc = "storing"
  /\ req[q].inst.id = d.userId
  /\ d.gmailMessageId \in req[q].list
  /\ \A e \in req[q].toStore : e.gmailMessageId # d.gmailMessageId
\* C23: when two concurrent syncs of one user write the same remote message
\* with different values, one row for the message results and it holds the
\* values of the write executed last.
C23_LaterWriteWins ==
  [][\A r \in Reqs, d \in AllPayloads :
       (/\ Stores(r, d)
        /\ \E q \in Reqs \ {r} : WroteEarlier(q, d)
        /\ \E row \in emails : SameMessage(row, d) /\ Payload(row) # d) =>
         /\ Cardinality({row \in emails' : SameMessage(row, d)}) = 1
         /\ \A row \in emails' : SameMessage(row, d) => Payload(row) = d]_vars

\* The remote status of a failed list call, read back from the event.
StatusOf(ev) ==
  IF ev = "list_failed_401" THEN 401
  ELSE IF ev = "list_failed_403" THEN 403
  ELSE IF ev = "list_failed_429" THEN 429
  ELSE 500

\* The answer of a sync or search request whose list call failed with the
\* status of the event ev and the remote message msg.
AnswerTo(kind, ev, msg) ==
  LET thrown == FetchEmailsCatch(ListErrorThrown(StatusOf(ev), msg))
  IN IF kind = "search"
     THEN SearchErrorResponse(SearchEmailsCatch(thrown))
     ELSE SyncErrorResponse(thrown)

\* C24: the answer of a sync or search request whose list call failed is the
\* answer of every run that differs only in the remote error message, and it
\* carries no text beyond the fixed error names.
C24_NoRemoteText ==
  (/\ last.kind \in {"sync", "search"}
   /\ last.ev \in {"list_failed_401", "list_failed_403", "list_failed_429",
                   "list_failed_other"}) =>
    /\ \A msg \in ApiErrorTexts : last.resp = AnswerTo(last.kind, last.ev, msg)
    /\ last.resp.details = <<>>

\* ------------------------------------------------ syncs of different users
\* The users of the shared GmailService instance.
MaxSyncUsers == 2
SyncUsers == 1 .. MaxSyncUsers
SyncMsgs == UNION {MailboxOf(g) : g \in SyncUsers}

\* Every user is logged in: user g has the identity g and the first token of
\* account g, valid and with a refresh token.
InitShared ==
  /\ now = 1
  /\ users = [u \in SyncUsers |->
                LoginDefaults([NoTok EXCEPT !.googleId = u, !.verified_email = TRUE,
                                            !.name = 1, !.loginAt = 1,
                                            !.access_token = (u - 1) * MaxSerial + 1,
                                            !.refresh_token = u * MaxSerial,
                                            !.tokenExpiry = ComputeExpiry(1, NULL)])]
  /\ emails = {}
  /\ remoteLabels = [m \in SyncMsgs |-> {"UNREAD"}]
  /\ remoteHeaders = [m \in SyncMsgs |-> <<>>]
  /\ remoteEdits = 0
  /\ gmail = NULL
  /\ jwts = SyncUsers
  /\ req = [r \in Reqs |-> Idle]
  /\ started = 0
  /\ last = NoLast

NextShared ==
  \/ \E r \in Reqs, uid \in SyncUsers : Authenticate(r, "sync", uid)
  \/ \E r \in Reqs, ids \in SUBSET SyncMsgs : ListOk(r, ids)
  \/ \E r \in Reqs, ok \in SUBSET SyncMsgs : GetDetails(r, ok)
  \/ \E r \in Reqs, m \in SyncMsgs, u \in SyncUsers :
       StoreOne(r, parseEmailMessage(m, {"UNREAD"}, <<>>, u))
  \/ \E r \in Reqs : Report(r)

SpecShared == InitShared /\ [][NextShared]_vars

\* C25: every messages.list and messages.get call of a sync is issued with
\* the credentials of the user the sync runs for, and every stored row holds
\* a message of the mailbox of the user it belongs to.
C25_OwnCredentials ==
  /\ \A r \in Reqs :
       (req[r].kind = "sync" /\ req[r].pc \in {"listing", "getting"}) =>
         AcctOf(req[r].cred) = users[req[r].inst.id].googleId
  /\ \A row \in emails :
       row.gmailMessageId \in MailboxOf(users[row.userId].googleId)

\* The credential fields of user u are cleared.
Cleared(row) ==
  row.accessToken = NULL /\ row.refreshToken = NULL /\ row.tokenExpiry = NULL

\* The step is the update of a login callback for user u.
LoginWrites(u) ==
  \E r \in Reqs :
    req[r].pc = "cb_update" /\ req[r].inst.id = u /\ req'[r].pc = "idle"

\* C26: right after a logout or an account deletion answered, the cleared
\* credential fields of the user (the model's Spec has one account) stay null
\* in every step that is not the update of a login callback, whatever other
\* requests of the user are in flight.
C26_ClearedStaysCleared ==
  [][\A u \in DOMAIN users :
       (/\ last.kind \in {"logout", "delete"}
        /\ last.resp.status = 200
        /\ Cleared(users[u])
        /\ ~LoginWrites(u)) => Cleared(users'[u])]_vars

\* ------------------------------------------- session tokens that do not verify
\* What is wrong with a presented session token, and the name of the error
\* jwt.verify throws for it.
JwtFaults == {"malformed", "bad_signature", "wrong_issuer", "wrong_audience", "expired"}
JwtErrorName(fault) ==
  IF fault = "expired" THEN "TokenExpiredError" ELSE "JsonWebTokenError"

\* verifyJWT, catch: whatever jwt.verify threw, a new Error is thrown.
VerifyJWTCatch(name) ==
  [name |-> "Error", message |-> <<"Invalid", "or", "expired", "authentication", "token">>]

\* authenticateToken, catch: the answer is chosen by the name of the error.
AuthErrorResponse(error) ==
  IF error.name = "JsonWebTokenError" THEN Resp(401, "INVALID_TOKEN")
  ELSE IF error.name = "TokenExpiredError" THEN Resp(401, "TOKEN_EXPIRED")
  ELSE Resp(500, "AUTH_SERVICE_ERROR")

\* A request whose session token fails verification: verifyJWT throws before
\* the first await and the catch of the middleware answers.
RejectToken(r, kind, fault) ==
  /\ Start(r)
  /\ LET error == VerifyJWTCatch(JwtErrorName(fault))
     IN Finish(r, kind, "mw_bad_token", error.message, AuthErrorResponse(error))
  /\ UNCHANGED <<now, users, emails, remoteLabels, remoteHeaders, remoteEdits, gmail, jwts>>

\* Syncs of the logged-in users, and requests with session tokens that do
\* not verify.
NextToken ==
  \/ NextShared
  \/ \E r \in Reqs, kind \in AuthKinds, fault \in JwtFaults : RejectToken(r, kind, fault)

SpecToken == InitShared /\ [][NextToken]_vars

\* C27: a request whose session token fails verification is answered with
\* 401 and INVALID_TOKEN or TOKEN_EXPIRED, never with 500.
C27_BadTokenIs401 ==
  last.ev = "mw_bad_token" =>
    /\ last.resp.status = 401
    /\ last.resp.error \in {"INVALID_TOKEN", "TOKEN_EXPIRED"}

\* C28: the session token a successful login callback issues names a user
\* the middleware accepts on a request made right away: the user exists and
\* is active, also when the account was deleted before this login.
C28_IssuedTokenAccepted ==
  (last.kind = "callback" /\ last.resp.token # NULL) =>
    /\ last.resp.token \in DOMAIN users
    /\ last.resp.token \in jwts
    /\ ValidUser(Instance(last.resp.token))

\* ------------------------------------------------- the rows of other users
\* Two logged-in users, the first with MaxMsgs rows and the second with one,
\* send list, detail, update, search and statistics requests, one at a time.
InitOwner ==
  /\ now = 1
  /\ users = [u \in SyncUsers |->
                LoginDefaults([NoTok EXCEPT !.googleId = u, !.verified_email = TRUE,
                                            !.name = 1, !.loginAt = 1,
                                            !.access_token = (u - 1) * MaxSerial + 1,
                                            !.refresh_token = u * MaxSerial,
                                            !.tokenExpiry = ComputeExpiry(1, NULL)])]
  /\ emails = {[id |-> m] @@ parseEmailMessage(m, {"UNREAD"}, <<>>,
                                                   IF m <= MaxMsgs THEN 1 ELSE 2) :
                 m \in RowIds}
  /\ remoteLabels = [m \in SyncMsgs |-> {"UNREAD"}]
  /\ remoteHeaders = [m \in SyncMsgs |-> <<>>]
  /\ remoteEdits = 0
  /\ gmail = NULL
  /\ jwts = SyncUsers
  /\ req = [r \in Reqs |-> Idle]
  /\ started = 0
  /\ last = NoLast

NextOwner ==
  \/ \E r \in {1}, kind \in {"list", "detail", "put", "search", "stats"}, uid \in SyncUsers :
       Authenticate(r, kind, uid)
  \/ \E r \in {1} : ListEmails(r)
  \/ \E r \in {1} : Detail(r)
  \/ \E r \in {1} : PutValidate(r)
  \/ \E r \in {1} : PutDb(r)
  \/ \E r \in {1} : PutSave(r)
  \/ \E r \in {1} : SearchLocal(r)
  \/ \E r \in {1} : ListOk(r, {})
  \/ \E r \in {1} : SearchAgain(r)
  \/ \E r \in {1} : StatsCount(r)

SpecOwner == InitOwner /\ [][NextOwner]_vars

\* C29: a list, detail, update, search or statistics request authenticated
\* as a user returns rows of that user only, changes rows of that user only,
\* and counts the rows of that user only, whatever ids and filters it sends.
C29_OwnRowsOnly ==
  [][\A r \in Reqs :
       (req[r].pc # "idle" /\ req[r].kind \in {"list", "detail", "put", "search", "stats"}) =>
         /\ req'[r].pc = "idle" => last'.resp.owners \subseteq {req[r].inst.id}
         /\ \A row \in emails \ emails' : row.userId = req[r].inst.id
         /\ (req[r].pc = "stats_today" /\ req'[r].pc = "idle") =>
              last'.resp.stats.total =
                Cardinality({row \in emails : row.userId = req[r].inst.id})]_vars

\* A list request of the second user returned that user's row only, while
\* the first user has rows as well.
C29_Witness ==
  /\ last.kind = "list"
  /\ last.resp.owners = {2}
  /\ \E row \in emails : row.userId = 1

\* --------------------------------------------- statistics during a sync
\* Syncs and statistics requests of the logged-in user of InitSync.
NextStats ==
  \/ \E r \in Reqs, kind \in {"sync", "stats"}, uid \in UserIds : Authenticate(r, kind, uid)
  \/ \E r \in Reqs, ids \in SUBSET AllMsgs : ListOk(r, ids)
  \/ \E r \in Reqs, ok \in SUBSET AllMsgs : GetDetails(r, ok)
  \/ \E r \in Reqs, emailData \in AllPayloads : StoreOne(r, emailData)
  \/ \E r \in Reqs : Report(r)
  \/ \E r \in Reqs : StatsCount(r)

SpecStats == InitSync /\ [][NextStats]_vars

\* C30: the counts of an answered statistics request satisfy
\* unread <= total, starred <= total and today <= total, also when a sync
\* of the user stores rows while they are counted.
C30_StatsWithinTotal ==
  (last.kind = "stats" /\ last.ev = "stats_done") =>
    /\ last.resp.stats.unread <= last.resp.stats.total
    /\ last.resp.stats.starred <= last.resp.stats.total
    /\ last.resp.stats.today <= last.resp.stats.total
====
